---- MODULE Spec2Model ----
(***************************************************************************)
(* Lake Formation access-controls automation.                              *)
(*                                                                         *)
(* Three Lambda handlers are modelled:                                     *)
(*   dispatcher   src/lakeformation_automation/lambda_function.py          *)
(*   central      src/lakeformation_permissions/central/lambda_function.py *)
(*   consumption  src/lakeformation_permissions/consumption/...            *)
(*                                                                         *)
(* Python dictionaries are records whose optional keys are sets of at most *)
(* one element ({} = key absent, {v} = key present with value v).          *)
(* Strings that the code takes apart are sequences of the pieces the code  *)
(* looks at: a principal is the sequence of its ':'-separated fields, a    *)
(* database name is a sequence of tokens one of which is the literal       *)
(* "foundation_".                                                          *)
(***************************************************************************)
EXTENDS Integers, Sequences, FiniteSets, TLC

VARIABLES path, batch, idx, pc, err, built, linkName,
          lfCalls, glueCalls, catalog, published, responses, sleeps

vars == <<path, batch, idx, pc, err, built, linkName,
          lfCalls, glueCalls, catalog, published, responses, sleeps>>

(***************************************************************************)
(* Bounds                                                                  *)
(***************************************************************************)
MaxBatch == 2

NumInv == 2

Invs == 1..NumInv

(***************************************************************************)
(* Optional dictionary keys                                                *)
(***************************************************************************)
Absent == {}

Some(v) == {v}

Has(o) == o # {}

Get(o) == CHOOSE v \in o : TRUE

(***************************************************************************)
(* Process environment (os.environ) of the three functions                 *)
(***************************************************************************)
CentralAccountId == "111111111111"

ConsumptionAccountId == "222222222222"

FoundationAccountId == "333333333333"

(***************************************************************************)
(* Strings                                                                 *)
(***************************************************************************)
FoundationPrefix == "foundation_"

\* 'foundation_' in s
HasFoundation(s) == \E k \in 1..Len(s) : s[k] = FoundationPrefix

FirstFoundation(s) == CHOOSE k \in 1..Len(s) :
                         /\ s[k] = FoundationPrefix
                         /\ \A j \in 1..(k-1) : s[j] # FoundationPrefix

\* s.split('foundation_')[1] for an s that contains 'foundation_': the piece
\* between the first occurrence and the next one (or the end of the string).
SplitFoundation1(s) ==
    LET f == FirstFoundation(s)
        rest == SubSeq(s, f + 1, Len(s))
        stop == IF HasFoundation(rest) THEN FirstFoundation(rest) - 1 ELSE Len(rest)
    IN  SubSeq(rest, 1, stop)

\* arn_regex.match(principal): '^arn:P:S:R:A:(type[:/])?resource$' needs the
\* literal "arn" and at least five ':' ; the result is the set of match objects
\* ({} when the match returns None), a match object being the field sequence.
arn_match(principal) ==
    IF Len(principal) >= 6 /\ principal[1] = "arn" THEN Some(principal) ELSE Absent

\* regex_obj[4], the AccountID group
AccountIDGroup(regex_obj) == regex_obj[5]

(***************************************************************************)
(* Input records                                                           *)
(***************************************************************************)
ArnCentral == <<"arn", "aws", "iam", "", CentralAccountId, "role/admin">>

ArnOther == <<"arn", "aws", "iam", "", ConsumptionAccountId, "role/consumer">>

NotArnShort == <<"arn", "aws", "iam", ConsumptionAccountId>>

NotArnPrefix == <<"urn", "aws", "iam", "", ConsumptionAccountId, "role/consumer">>

DbSales == <<"sales">>

DbFoundationSales == <<FoundationPrefix, "sales">>

DbNames == {DbSales, DbFoundationSales}

EmptyObj == "{}"

MkTable(db, name, wild) ==
    [DatabaseName |-> db, Name |-> name, TableWildcard |-> wild]

MkTwc(db, name, cols, wild) ==
    [DatabaseName |-> db, Name |-> name, ColumnNames |-> cols, ColumnWildcard |-> wild]

MkRecord(acct, princ, at, tbl, twc, perms, pwgo) ==
    [AccountID |-> acct, Principal |-> princ, AccessType |-> at,
     Table |-> tbl, TableWithColumns |-> twc,
     Permissions |-> perms, PermissionsWithGrantOption |-> pwgo]

TblName(db) == Some(MkTable(Some(db), Some("orders"), Absent))

TblWild(db) == Some(MkTable(Some(db), Absent, Some(EmptyObj)))

TwcCols(db) == Some(MkTwc(Some(db), Some("orders"), Some({"id"}), Absent))

AccessTypes == {"grant", "revoke"}

\* principal and AccountID variants of a well-formed Table record
PrincipalSlice ==
    { MkRecord(a, p, at, TblName(DbSales), Absent, Some({"SELECT"}), Absent) :
        a \in {Some(ConsumptionAccountId)},
        p \in {Some(ArnCentral), Some(ArnOther), Some(NotArnShort),
               Some(NotArnPrefix), Absent},
        at \in AccessTypes }
    \cup
    { MkRecord(a, Some(ArnOther), at, TblName(DbSales), Absent, Some({"SELECT"}), Absent) :
        a \in {Some(CentralAccountId), Absent}, at \in AccessTypes }

\* resource-selector variants
SelectorSlice ==
    { MkRecord(Some(ConsumptionAccountId), Some(ArnOther), "grant", s[1], s[2],
               Some({"SELECT"}), Absent) :
        s \in { <<TblName(DbFoundationSales), Absent>>,
                <<TblWild(DbSales), Absent>>,
                <<Some(MkTable(Absent, Some("orders"), Absent)), Absent>>,
                <<Some(MkTable(Some(DbSales), Absent, Absent)), Absent>>,
                <<Absent, TwcCols(DbSales)>>,
                <<Absent, TwcCols(DbFoundationSales)>>,
                <<Absent, Some(MkTwc(Absent, Some("orders"), Some({"id"}), Absent))>>,
                <<Absent, Some(MkTwc(Some(DbSales), Absent, Some({"id"}), Absent))>>,
                <<Absent, Some(MkTwc(Some(DbSales), Some("orders"), Absent, Some(EmptyObj)))>>,
                <<Absent, Some(MkTwc(Some(DbSales), Some("orders"), Absent, Absent))>>,
                <<TblName(DbSales), TwcCols(DbSales)>>,
                <<Absent, Absent>> } }

\* Permissions / PermissionsWithGrantOption variants
PermissionSlice ==
    { MkRecord(Some(ConsumptionAccountId), Some(ArnOther), "grant",
               TblName(DbSales), Absent, p[1], p[2]) :
        p \in { <<Absent, Absent>>,
                <<Some({}), Absent>>,
                <<Some({"DESCRIBE"}), Absent>>,
                <<Some({"DROP"}), Absent>>,
                <<Some({"SELECT", "DESCRIBE"}), Absent>>,
                <<Some({"SELECT", "DESCRIBE", "DROP"}), Absent>>,
                <<Some({"SELECT", "DROP"}), Some({"SELECT"})>>,
                <<Some({"SELECT"}), Some({"SELECT", "DROP"})>>,
                <<Some({"SELECT"}), Some({})>> } }
    \cup
    { MkRecord(Some(ConsumptionAccountId), Some(ArnOther), "revoke",
               TblName(DbSales), Absent, p[1], p[2]) :
        p \in { <<Some({"SELECT", "DESCRIBE", "DROP"}), Absent>>,
                <<Some({"SELECT"}), Some({"SELECT"})>> } }

DbMidFoundation == <<"my_", FoundationPrefix, "db">>

\* a database name that holds "foundation_" elsewhere than at its start
DatabaseSlice ==
    { MkRecord(Some(ConsumptionAccountId), Some(ArnOther), "grant",
               TblName(DbMidFoundation), Absent, Some({"SELECT"}), Absent) }

\* AccessType written otherwise than in lower case, or naming no operation
AccessTypeSlice ==
    { MkRecord(Some(ConsumptionAccountId), Some(ArnOther), at, TblName(DbSales), Absent,
               Some({"SELECT"}), Absent) : at \in {"GRANT", "Revoke", "delete"} }

Records == PrincipalSlice \cup SelectorSlice \cup PermissionSlice \cup DatabaseSlice

Batches == UNION { [1..n -> Records] : n \in 1..MaxBatch }

(***************************************************************************)
(* Dispatcher: lakeformation_automation/lambda_function.py                 *)
(***************************************************************************)
Raise(e) == [err |-> e, val |-> Absent]

Return(v) == [err |-> "", val |-> Some(v)]

\* generate_db_perm with db_perm asking for DESCRIBE alone, without grant option
generate_db_perm_describe_only(perm_record, acc_id) ==
    LET regex_obj == arn_match(Get(perm_record.Principal))
        tbl == perm_record.Table
        twc == perm_record.TableWithColumns
        db_perm(db) ==
            MkRecord(Some(acc_id), Some(<<AccountIDGroup(Get(regex_obj))>>), "grant",
                     Some(MkTable(Some(db), Absent, Some(EmptyObj))), Absent,
                     Some({"DESCRIBE"}), Absent)
    IN  IF Has(regex_obj)
        THEN IF \/ (Has(tbl) /\ ~Has(Get(tbl).DatabaseName))
                \/ (~Has(tbl) /\ ~Has(twc))
             THEN Raise("LFAttributeError")
             ELSE IF Has(tbl)
             THEN Return(db_perm(Get(Get(tbl).DatabaseName)))
             ELSE IF Has(Get(twc).DatabaseName)
             THEN Return(db_perm(Get(Get(twc).DatabaseName)))
             ELSE Raise("LFAttributeError")
        ELSE Raise("LFAttributeError")

\* generate_db_perm with the AccountID of db_perm taken from the principal
generate_db_perm_principal_account(perm_record, acc_id) ==
    LET regex_obj == arn_match(Get(perm_record.Principal))
        tbl == perm_record.Table
        twc == perm_record.TableWithColumns
        db_perm(db) ==
            MkRecord(Some(AccountIDGroup(Get(regex_obj))),
                     Some(<<AccountIDGroup(Get(regex_obj))>>), "grant",
                     Some(MkTable(Some(db), Absent, Some(EmptyObj))), Absent,
                     Some({"SELECT", "DESCRIBE"}), Some({"SELECT", "DESCRIBE"}))
    IN  IF Has(regex_obj)
        THEN IF \/ (Has(tbl) /\ ~Has(Get(tbl).DatabaseName))
                \/ (~Has(tbl) /\ ~Has(twc))
             THEN Raise("LFAttributeError")
             ELSE IF Has(tbl)
             THEN Return(db_perm(Get(Get(tbl).DatabaseName)))
             ELSE IF Has(Get(twc).DatabaseName)
             THEN Return(db_perm(Get(Get(twc).DatabaseName)))
             ELSE Raise("LFAttributeError")
        ELSE Raise("LFAttributeError")

\* generate_db_perm(perm_record), with os.environ['ACCOUNT_ID'] = acc_id
generate_db_perm(perm_record, acc_id) ==
    LET regex_obj == arn_match(Get(perm_record.Principal))
        tbl == perm_record.Table
        twc == perm_record.TableWithColumns
        db_perm(db) ==
            MkRecord(Some(acc_id), Some(<<AccountIDGroup(Get(regex_obj))>>), "grant",
                     Some(MkTable(Some(db), Absent, Some(EmptyObj))), Absent,
                     Some({"SELECT", "DESCRIBE"}), Some({"SELECT", "DESCRIBE"}))
    IN  IF Has(regex_obj)
        THEN IF \/ (Has(tbl) /\ ~Has(Get(tbl).DatabaseName))
                \/ (~Has(tbl) /\ ~Has(twc))
             THEN Raise("LFAttributeError")
             ELSE IF Has(tbl)
             THEN Return(db_perm(Get(Get(tbl).DatabaseName)))
             ELSE IF Has(Get(twc).DatabaseName)
             THEN Return(db_perm(Get(Get(twc).DatabaseName)))
             ELSE Raise("LFAttributeError")
        ELSE Raise("LFAttributeError")

\* publish_sns(record): the message handed to sns_client.publish
\* (AccountID values are strings, on which str() changes nothing)
publish_sns(record) ==
    IF Has(record.AccountID)
    THEN Return([perms_to_set |-> record, account_id |-> Get(record.AccountID)])
    ELSE Raise("KeyError:AccountID")

\* the condition of lines 158-161 without its AccessType test
needs_db_perm_any_access(perm_record, regex_obj, acc_id) ==
    IF ~Has(regex_obj) THEN "TypeError"
    ELSE IF AccountIDGroup(Get(regex_obj)) # acc_id THEN "yes" ELSE "no"

\* the condition of lines 158-161: "yes", "no", or the exception that
\* subscripting a failed match (None) raises
needs_db_perm(perm_record, regex_obj, acc_id) ==
    IF perm_record.AccessType = "grant"
    THEN IF ~Has(regex_obj) THEN "TypeError"
         ELSE IF AccountIDGroup(Get(regex_obj)) # acc_id THEN "yes" ELSE "no"
    ELSE "no"

Msg(kind, m) == [kind |-> kind, msg |-> m]

\* publish_sns(perm_record) at line 166, after the messages `sent` so far
publish_original(perm_record, sent) ==
    LET orig == publish_sns(perm_record)
    IN  IF orig.err # "" THEN [err |-> orig.err, msgs |-> sent]
        ELSE [err |-> "", msgs |-> Append(sent, Msg("original", Get(orig.val)))]

\* lines 162-166: the publishes of one record whose condition held
publish_with_db_perm(perm_record, acc_id) ==
    LET gen == generate_db_perm(perm_record, acc_id)
        dbm == publish_sns(Get(gen.val))
    IN  IF gen.err # "" THEN [err |-> gen.err, msgs |-> <<>>]
        ELSE IF dbm.err # "" THEN [err |-> dbm.err, msgs |-> <<>>]
        ELSE publish_original(perm_record, <<Msg("describe", Get(dbm.val))>>)

HttpStatuses == {200, 500}

\* line 163 without the test of the status code
pause_after_db_perm_always(msgs, rs) ==
    Len(msgs) >= 1 /\ msgs[1].kind = "describe"

\* lines 163-165: the handler sleeps when the response to the publish of the
\* DB-describe record has status 200
pause_after_db_perm(msgs, rs) ==
    Len(msgs) >= 1 /\ msgs[1].kind = "describe" /\ rs[1] = 200

\* the loop body with the original record published ahead of the checks
dispatch_record_publish_first(perm_record, acc_id) ==
    LET first == publish_original(perm_record, <<>>)
    IN  IF first.err # "" THEN first
        ELSE IF ~Has(perm_record.Principal)
        THEN [err |-> "KeyError:Principal", msgs |-> first.msgs]
        ELSE LET regex_obj == arn_match(Get(perm_record.Principal))
                 need == needs_db_perm(perm_record, regex_obj, acc_id)
                 gen == generate_db_perm(perm_record, acc_id)
             IN  IF need = "TypeError" THEN [err |-> "TypeError", msgs |-> first.msgs]
                 ELSE IF need = "no" THEN first
                 ELSE IF gen.err # "" THEN [err |-> gen.err, msgs |-> first.msgs]
                 ELSE [err |-> "",
                       msgs |-> Append(first.msgs,
                                   Msg("describe", Get(publish_sns(Get(gen.val)).val)))]

\* the body of the loop over s3_content['Records'] (lines 157-167): the
\* messages published for one record, in order, and the exception raised
dispatch_record(perm_record, acc_id) ==
    IF ~Has(perm_record.Principal) THEN [err |-> "KeyError:Principal", msgs |-> <<>>]
    ELSE LET regex_obj == arn_match(Get(perm_record.Principal))
             need == needs_db_perm(perm_record, regex_obj, acc_id)
         IN  IF need = "TypeError" THEN [err |-> "TypeError", msgs |-> <<>>]
             ELSE IF need = "yes" THEN publish_with_db_perm(perm_record, acc_id)
             ELSE publish_original(perm_record, <<>>)

(***************************************************************************)
(* Workers: shared shapes                                                  *)
(***************************************************************************)
NoBuilt == [err |-> "", describe |-> Absent, principal_json |-> Absent,
            table_json |-> Absent, tableWithColumns_json |-> Absent,
            perm_json |-> Absent, perm_grant_json |-> Absent]

Resource(db, tbl, twc) == [Database |-> db, Table |-> tbl, TableWithColumns |-> twc]

LfCall(api, principal, resource, perms, pwgo) ==
    [api |-> api, Principal |-> principal, Resource |-> resource,
     Permissions |-> perms, PermissionsWithGrantOption |-> pwgo]

\* str.lower() on the AccessType values
Lower(s) == CASE s = "Grant" -> "grant"
              [] s = "GRANT" -> "grant"
              [] s = "Revoke" -> "revoke"
              [] s = "REVOKE" -> "revoke"
              [] OTHER -> s

\* table_json['DatabaseName'] after lines 116-117 / 171-172
strip_foundation(db) == IF HasFoundation(db) THEN SplitFoundation1(db) ELSE db

(***************************************************************************)
(* Central worker: lakeformation_permissions/central/lambda_function.py    *)
(***************************************************************************)
Central_perm_lit == {"SELECT", "DESCRIBE"}

\* the call made by grant_db_describe(principal, database)
Central_grant_db_describe(principal, database) ==
    LfCall("grant_permissions", principal,
           Resource(Some([CatalogId |-> Absent, Name |-> database]), Absent, Absent),
           {"DESCRIBE"}, Absent)

\* lines 145-153: perm_json
Central_perm_json(event) ==
    IF Has(event.Permissions)
    THEN IF Central_perm_lit \ Get(event.Permissions) # {}
         THEN Some(Central_perm_lit)
         ELSE Some(Get(event.Permissions))
    ELSE Absent

\* perm_grant_json that keeps the list of the input record
Central_perm_grant_json_as_given(event) == event.PermissionsWithGrantOption

\* lines 155-156: perm_grant_json
Central_perm_grant_json(event) ==
    IF Has(event.PermissionsWithGrantOption) THEN Some({"SELECT", "DESCRIBE"}) ELSE Absent

\* buildjson(event): `describe` is the database handed to grant_db_describe
\* when the call is reached, err the exception raised (after that call when
\* describe is present)
Central_buildjson(event, acc_id) ==
    LET principal_json == Some([DataLakePrincipalIdentifier |-> Get(event.Principal)])
        fail(d) == [NoBuilt EXCEPT !.err = "LFAttributeError", !.describe = d]
        done(d, tj, twj) ==
            [err |-> "", describe |-> d, principal_json |-> principal_json,
             table_json |-> tj, tableWithColumns_json |-> twj,
             perm_json |-> Central_perm_json(event),
             perm_grant_json |-> Central_perm_grant_json(event)]
    IN  IF ~Has(event.Principal) THEN fail(Absent)
        ELSE IF Has(event.Table)
        THEN LET t == Get(event.Table)
             IN  IF ~Has(t.DatabaseName) THEN fail(Absent)
                 ELSE LET tj == [DatabaseName |-> strip_foundation(Get(t.DatabaseName)),
                                 CatalogId |-> acc_id]
                      IN  IF Has(t.Name)
                          THEN done(t.DatabaseName,
                                    Some(tj @@ [Name |-> t.Name,
                                                TableWildcard |-> Absent]),
                                    Absent)
                          ELSE IF Has(t.TableWildcard)
                          THEN done(t.DatabaseName,
                                    Some(tj @@ [Name |-> Absent,
                                                TableWildcard |-> t.TableWildcard]),
                                    Absent)
                          ELSE fail(t.DatabaseName)
        ELSE IF Has(event.TableWithColumns)
        THEN LET t == Get(event.TableWithColumns)
             IN  IF ~Has(t.DatabaseName) THEN fail(Absent)
                 ELSE LET tj == [DatabaseName |-> strip_foundation(Get(t.DatabaseName)),
                                 CatalogId |-> acc_id, Name |-> t.Name]
                      IN  IF ~Has(t.Name) THEN fail(t.DatabaseName)
                          ELSE IF Has(t.ColumnNames)
                          THEN done(t.DatabaseName, Absent,
                                    Some(tj @@ [ColumnNames |-> t.ColumnNames,
                                                ColumnWildcard |-> Absent]))
                          ELSE IF Has(t.ColumnWildcard)
                          THEN done(t.DatabaseName, Absent,
                                    Some(tj @@ [ColumnNames |-> Absent,
                                                ColumnWildcard |-> t.ColumnWildcard]))
                          ELSE fail(t.DatabaseName)
        ELSE fail(Absent)

\* lines 180-184: resource
Central_resource(table_json, tableWithColumns_json) ==
    IF Has(table_json) THEN Resource(Absent, table_json, Absent)
    ELSE IF Has(tableWithColumns_json) THEN Resource(Absent, Absent, tableWithColumns_json)
    ELSE Resource(Absent, Absent, Absent)

\* grant_lf_permissions(...): the call made, or the exception re-raised
Central_grant_lf_permissions(principal_json, table_json, tableWithColumns_json, perm_json, perm_grant_json) ==
    LET perm_with_grant == IF Has(perm_grant_json) THEN Get(perm_grant_json) ELSE {}
    IN  IF ~Has(perm_json) THEN Raise("KeyError:Permissions")
        ELSE Return(LfCall("grant_permissions", principal_json,
                           Central_resource(table_json, tableWithColumns_json),
                           Get(perm_json), Some(perm_with_grant)))

\* revoke_lf_permissions(...)
Central_revoke_lf_permissions(principal_json, table_json, tableWithColumns_json, perm_json, perm_grant_json) ==
    IF ~Has(perm_json) THEN Raise("KeyError:Permissions")
    ELSE Return(LfCall("revoke_permissions", principal_json,
                       Central_resource(table_json, tableWithColumns_json),
                       Get(perm_json), Absent))

\* lines 247-260: the call after the loop, for the last event_body
Central_apply(event_body, b) ==
    IF Lower(event_body.AccessType) = "grant"
    THEN Central_grant_lf_permissions(b.principal_json, b.table_json,
             b.tableWithColumns_json, b.perm_json, b.perm_grant_json)
    ELSE IF Lower(event_body.AccessType) = "revoke"
    THEN Central_revoke_lf_permissions(b.principal_json, b.table_json,
             b.tableWithColumns_json, b.perm_json, b.perm_grant_json)
    ELSE Raise("LFAttributeError")

(***************************************************************************)
(* Consumption worker: lakeformation_permissions/consumption/...           *)
(***************************************************************************)
Consumption_perm_lit == {"SELECT"}

\* lines 67-68: the name of the resource link
Consumption_link_name(database) ==
    IF ~HasFoundation(database) THEN <<FoundationPrefix>> \o database ELSE database

\* check_db_exist that returns True whatever get_database answers
check_db_exist_always(cat, database) == TRUE

\* check_db_exist(glue_client, database) against the account's catalog
check_db_exist(cat, database) == \E l \in cat : l.Name = database

\* lines 78-84: DatabaseInput of create_database
Consumption_DatabaseInput(database, f_acc_id) ==
    [Name |-> database,
     TargetDatabase |-> [CatalogId |-> f_acc_id,
                         DatabaseName |-> SplitFoundation1(database)]]

\* lines 92-104: the call made by grant_db_describe after the link is ensured
Consumption_grant_db_describe(principal, database, acc_id) ==
    LfCall("grant_permissions", principal,
           Resource(Some([CatalogId |-> Some(acc_id), Name |-> database]), Absent, Absent),
           {"DESCRIBE"}, Absent)

\* lines 200-208: perm_json
Consumption_perm_json(event) ==
    IF Has(event.Permissions)
    THEN IF Consumption_perm_lit \ Get(event.Permissions) # {}
         THEN Some(Consumption_perm_lit)
         ELSE Some(Get(event.Permissions))
    ELSE Absent

\* buildjson that hands the DatabaseName of a Table to grant_db_describe
\* without testing that the key is there (event['Table'].get('DatabaseName'))
Consumption_buildjson_unchecked_db(event, f_acc_id) ==
    IF Has(event.Principal) /\ Has(event.Table) /\ ~Has(Get(event.Table).DatabaseName)
    THEN [NoBuilt EXCEPT !.err = "LFAttributeError", !.describe = Some(<<"None">>)]
    ELSE [Central_buildjson(event, f_acc_id) EXCEPT
             !.perm_json = Consumption_perm_json(event),
             !.perm_grant_json = Absent]

\* buildjson(event), as Central_buildjson; there is no perm_grant_json
Consumption_buildjson(event, f_acc_id) ==
    LET principal_json == Some([DataLakePrincipalIdentifier |-> Get(event.Principal)])
        fail(d) == [NoBuilt EXCEPT !.err = "LFAttributeError", !.describe = d]
        done(d, tj, twj) ==
            [err |-> "", describe |-> d, principal_json |-> principal_json,
             table_json |-> tj, tableWithColumns_json |-> twj,
             perm_json |-> Consumption_perm_json(event),
             perm_grant_json |-> Absent]
    IN  IF ~Has(event.Principal) THEN fail(Absent)
        ELSE IF Has(event.Table)
        THEN LET t == Get(event.Table)
             IN  IF ~Has(t.DatabaseName) THEN fail(Absent)
                 ELSE LET tj == [DatabaseName |-> strip_foundation(Get(t.DatabaseName)),
                                 CatalogId |-> f_acc_id]
                      IN  IF Has(t.Name)
                          THEN done(t.DatabaseName,
                                    Some(tj @@ [Name |-> t.Name,
                                                TableWildcard |-> Absent]),
                                    Absent)
                          ELSE IF Has(t.TableWildcard)
                          THEN done(t.DatabaseName,
                                    Some(tj @@ [Name |-> Absent,
                                                TableWildcard |-> t.TableWildcard]),
                                    Absent)
                          ELSE fail(t.DatabaseName)
        ELSE IF Has(event.TableWithColumns)
        THEN LET t == Get(event.TableWithColumns)
             IN  IF ~Has(t.DatabaseName) THEN fail(Absent)
                 ELSE LET tj == [DatabaseName |-> strip_foundation(Get(t.DatabaseName)),
                                 CatalogId |-> f_acc_id, Name |-> t.Name]
                      IN  IF ~Has(t.Name) THEN fail(t.DatabaseName)
                          ELSE IF Has(t.ColumnNames)
                          THEN done(t.DatabaseName, Absent,
                                    Some(tj @@ [ColumnNames |-> t.ColumnNames,
                                                ColumnWildcard |-> Absent]))
                          ELSE IF Has(t.ColumnWildcard)
                          THEN done(t.DatabaseName, Absent,
                                    Some(tj @@ [ColumnNames |-> Absent,
                                                ColumnWildcard |-> t.ColumnWildcard]))
                          ELSE fail(t.DatabaseName)
        ELSE fail(Absent)

\* lines 230-234: resource
Consumption_resource(table_json, tableWithColumns_json) ==
    IF Has(table_json) THEN Resource(Absent, table_json, Absent)
    ELSE IF Has(tableWithColumns_json) THEN Resource(Absent, Absent, tableWithColumns_json)
    ELSE Resource(Absent, Absent, Absent)

\* grant_lf_permissions passing the grant option as the central worker does
Consumption_grant_lf_permissions_with_option(principal_json, table_json, tableWithColumns_json, perm_json) ==
    IF ~Has(perm_json) THEN Raise("KeyError:Permissions")
    ELSE Return(LfCall("grant_permissions", principal_json,
                       Consumption_resource(table_json, tableWithColumns_json),
                       Get(perm_json), Some(Get(perm_json))))

\* grant_lf_permissions(...)
Consumption_grant_lf_permissions(principal_json, table_json, tableWithColumns_json, perm_json) ==
    IF ~Has(perm_json) THEN Raise("KeyError:Permissions")
    ELSE Return(LfCall("grant_permissions", principal_json,
                       Consumption_resource(table_json, tableWithColumns_json),
                       Get(perm_json), Absent))

\* revoke_lf_permissions(...)
Consumption_revoke_lf_permissions(principal_json, table_json, tableWithColumns_json, perm_json) ==
    IF ~Has(perm_json) THEN Raise("KeyError:Permissions")
    ELSE Return(LfCall("revoke_permissions", principal_json,
                       Consumption_resource(table_json, tableWithColumns_json),
                       Get(perm_json), Absent))

\* lines 290-303: the call after the loop, for the last event_body
Consumption_apply(event_body, b) ==
    IF Lower(event_body.AccessType) = "grant"
    THEN Consumption_grant_lf_permissions(b.principal_json, b.table_json,
             b.tableWithColumns_json, b.perm_json)
    ELSE IF Lower(event_body.AccessType) = "revoke"
    THEN Consumption_revoke_lf_permissions(b.principal_json, b.table_json,
             b.tableWithColumns_json, b.perm_json)
    ELSE Raise("LFAttributeError")

(***************************************************************************)
(* State machine.  An invocation i handles batch[i]; idx[i] is the record  *)
(* the loop is at, pc[i] the position in the handler.  lfCalls, glueCalls  *)
(* and published log the service calls in the order they are made, each    *)
(* tagged with the invocation and the record being processed.              *)
(***************************************************************************)
Paths == {"dispatcher", "central", "consumption"}

Tag(i, k, x) == [inv |-> i, rec |-> k, call |-> x]

TagAll(i, k, s) == [n \in 1..Len(s) |-> Tag(i, k, s[n])]

Fail(i, e) == /\ pc' = [pc EXCEPT ![i] = "failed"]
              /\ err' = [err EXCEPT ![i] = e]
              /\ UNCHANGED <<idx, built>>

\* end of one iteration of the loop over the records of a worker
NextRecord(i, out) ==
    /\ built' = [built EXCEPT ![i] = out]
    /\ IF idx[i] < Len(batch[i])
       THEN /\ idx' = [idx EXCEPT ![i] = idx[i] + 1]
            /\ pc' = [pc EXCEPT ![i] = "loop"]
       ELSE /\ idx' = idx
            /\ pc' = [pc EXCEPT ![i] = "apply"]
    /\ err' = err

\* dispatcher lambda_handler: one iteration over s3_content['Records']
\* (the outer loop over event['Records'] reads one manifest after the other,
\* so batch[i] is the concatenation of their Records).  responses holds the
\* HTTPStatusCode of the response to each publish, sleeps the time.sleep(3)
\* calls made.
Dispatcher_Record(i) ==
    /\ path[i] = "dispatcher" /\ pc[i] = "loop"
    /\ LET out == dispatch_record(batch[i][idx[i]], CentralAccountId)
       IN  /\ published' = published \o TagAll(i, idx[i], out.msgs)
           /\ \E rs \in [1..Len(out.msgs) -> HttpStatuses] :
                 /\ responses' = responses \o rs
                 /\ sleeps' = IF pause_after_db_perm(out.msgs, rs)
                              THEN Append(sleeps, [inv |-> i, rec |-> idx[i]])
                              ELSE sleeps
           /\ IF out.err # "" THEN Fail(i, out.err)
              ELSE /\ idx' = [idx EXCEPT ![i] = IF idx[i] < Len(batch[i])
                                                 THEN idx[i] + 1 ELSE idx[i]]
                   /\ pc' = [pc EXCEPT ![i] = IF idx[i] < Len(batch[i])
                                               THEN "loop" ELSE "done"]
                   /\ UNCHANGED <<err, built>>
    /\ UNCHANGED <<path, batch, linkName, lfCalls, glueCalls, catalog>>

\* the loop of the central lambda_handler with the database grant made for
\* grant records alone
Central_Build_describe_on_grant(i) ==
    /\ path[i] = "central" /\ pc[i] = "loop"
    /\ LET out == Central_buildjson(batch[i][idx[i]], CentralAccountId)
       IN  /\ lfCalls' = IF Has(out.describe) /\ batch[i][idx[i]].AccessType = "grant"
                         THEN Append(lfCalls, Tag(i, idx[i],
                                  Central_grant_db_describe(
                                      Some([DataLakePrincipalIdentifier |->
                                              Get(batch[i][idx[i]].Principal)]),
                                      Get(out.describe))))
                         ELSE lfCalls
           /\ IF out.err # "" THEN Fail(i, out.err) ELSE NextRecord(i, out)
    /\ UNCHANGED <<path, batch, linkName, glueCalls, catalog, published, responses, sleeps>>

\* central lambda_handler: one iteration of the loop (buildjson)
Central_Build(i) ==
    /\ path[i] = "central" /\ pc[i] = "loop"
    /\ LET out == Central_buildjson(batch[i][idx[i]], CentralAccountId)
       IN  /\ lfCalls' = IF Has(out.describe)
                         THEN Append(lfCalls, Tag(i, idx[i],
                                  Central_grant_db_describe(
                                      Some([DataLakePrincipalIdentifier |->
                                              Get(batch[i][idx[i]].Principal)]),
                                      Get(out.describe))))
                         ELSE lfCalls
           /\ IF out.err # "" THEN Fail(i, out.err) ELSE NextRecord(i, out)
    /\ UNCHANGED <<path, batch, linkName, glueCalls, catalog, published, responses, sleeps>>

\* central lambda_handler: the grant or revoke after the loop
Central_Apply(i) ==
    /\ path[i] = "central" /\ pc[i] = "apply"
    /\ LET r == Central_apply(batch[i][idx[i]], built[i])
       IN  IF r.err # ""
           THEN Fail(i, r.err) /\ lfCalls' = lfCalls
           ELSE /\ lfCalls' = Append(lfCalls, Tag(i, idx[i], Get(r.val)))
                /\ pc' = [pc EXCEPT ![i] = "done"]
                /\ UNCHANGED <<idx, err, built>>
    /\ UNCHANGED <<path, batch, linkName, glueCalls, catalog, published, responses, sleeps>>

\* consumption buildjson up to the call of grant_db_describe (lines 154-170)
\* and the start of grant_db_describe (lines 64-70)
Consumption_Begin(i) ==
    /\ path[i] = "consumption" /\ pc[i] = "loop"
    /\ LET out == Consumption_buildjson(batch[i][idx[i]], FoundationAccountId)
       IN  IF ~Has(out.describe)
           THEN Fail(i, out.err) /\ linkName' = linkName
           ELSE /\ linkName' = [linkName EXCEPT
                                  ![i] = Consumption_link_name(Get(out.describe))]
                /\ pc' = [pc EXCEPT ![i] = "lookup"]
                /\ UNCHANGED <<idx, err, built>>
    /\ UNCHANGED <<path, batch, lfCalls, glueCalls, catalog, published, responses, sleeps>>

\* grant_db_describe with the test of line 73 left out
Consumption_Lookup_always_create(i) ==
    /\ path[i] = "consumption" /\ pc[i] = "lookup"
    /\ glueCalls' = Append(glueCalls, Tag(i, idx[i],
                        [api |-> "get_database", Name |-> linkName[i]]))
    /\ pc' = [pc EXCEPT ![i] = "create"]
    /\ UNCHANGED <<path, batch, idx, err, built, linkName, lfCalls, catalog, published, responses, sleeps>>

\* grant_db_describe line 71: check_db_exist
Consumption_Lookup(i) ==
    /\ path[i] = "consumption" /\ pc[i] = "lookup"
    /\ glueCalls' = Append(glueCalls, Tag(i, idx[i],
                        [api |-> "get_database", Name |-> linkName[i]]))
    /\ pc' = [pc EXCEPT ![i] = IF check_db_exist(catalog, linkName[i])
                                THEN "describe" ELSE "create"]
    /\ UNCHANGED <<path, batch, idx, err, built, linkName, lfCalls, catalog, published, responses, sleeps>>

\* grant_db_describe lines 73-89: create_database; the catalog refuses a name
\* that exists (AlreadyExistsException), which the code does not catch
Consumption_Create(i) ==
    /\ path[i] = "consumption" /\ pc[i] = "create"
    /\ LET input == Consumption_DatabaseInput(linkName[i], FoundationAccountId)
       IN  /\ glueCalls' = Append(glueCalls, Tag(i, idx[i],
                               [api |-> "create_database", Name |-> input.Name]))
           /\ IF check_db_exist(catalog, input.Name)
              THEN Fail(i, "AlreadyExistsException") /\ catalog' = catalog
              ELSE /\ catalog' = catalog \cup {input}
                   /\ pc' = [pc EXCEPT ![i] = "describe"]
                   /\ UNCHANGED <<idx, err, built>>
    /\ UNCHANGED <<path, batch, linkName, lfCalls, published, responses, sleeps>>

\* grant_db_describe lines 92-106 and the rest of buildjson (lines 171-211)
Consumption_Describe(i) ==
    /\ path[i] = "consumption" /\ pc[i] = "describe"
    /\ LET out == Consumption_buildjson(batch[i][idx[i]], FoundationAccountId)
       IN  /\ lfCalls' = Append(lfCalls, Tag(i, idx[i],
                             Consumption_grant_db_describe(
                                 Some([DataLakePrincipalIdentifier |->
                                         Get(batch[i][idx[i]].Principal)]),
                                 linkName[i], ConsumptionAccountId)))
           /\ IF out.err # "" THEN Fail(i, out.err) ELSE NextRecord(i, out)
    /\ UNCHANGED <<path, batch, linkName, glueCalls, catalog, published, responses, sleeps>>

\* consumption lambda_handler: the grant or revoke after the loop
Consumption_Apply(i) ==
    /\ path[i] = "consumption" /\ pc[i] = "apply"
    /\ LET r == Consumption_apply(batch[i][idx[i]], built[i])
       IN  IF r.err # ""
           THEN Fail(i, r.err) /\ lfCalls' = lfCalls
           ELSE /\ lfCalls' = Append(lfCalls, Tag(i, idx[i], Get(r.val)))
                /\ pc' = [pc EXCEPT ![i] = "done"]
                /\ UNCHANGED <<idx, err, built>>
    /\ UNCHANGED <<path, batch, linkName, glueCalls, catalog, published, responses, sleeps>>

SalesLink == Consumption_DatabaseInput(DbFoundationSales, FoundationAccountId)

\* one invocation, of any of the three functions, on any batch
Init ==
    /\ \E p \in Paths, b \in Batches :
         /\ path = [i \in Invs |-> p]
         /\ batch = [i \in Invs |-> IF i = 1 THEN b ELSE <<>>]
         /\ catalog \in IF p = "consumption" THEN {{}, {SalesLink}} ELSE {{}}
    /\ idx = [i \in Invs |-> 1]
    /\ pc = [i \in Invs |-> IF i = 1 THEN "loop" ELSE "off"]
    /\ err = [i \in Invs |-> ""]
    /\ built = [i \in Invs |-> NoBuilt]
    /\ linkName = [i \in Invs |-> <<>>]
    /\ lfCalls = <<>>
    /\ glueCalls = <<>>
    /\ published = <<>>
    /\ responses = <<>>
    /\ sleeps = <<>>

Next ==
    \E i \in Invs :
        \/ Dispatcher_Record(i)
        \/ Central_Build(i)
        \/ Central_Apply(i)
        \/ Consumption_Begin(i)
        \/ Consumption_Lookup(i)
        \/ Consumption_Create(i)
        \/ Consumption_Describe(i)
        \/ Consumption_Apply(i)

Spec == Init /\ [][Next]_vars

\* concurrent consumption invocations, each delivered one well-formed record
RaceRecords ==
    { MkRecord(Some(ConsumptionAccountId), Some(ArnOther), at, TblName(db), Absent,
               Some({"SELECT"}), Absent) : at \in AccessTypes, db \in DbNames }

InitRace ==
    /\ path = [i \in Invs |-> "consumption"]
    /\ batch \in [Invs -> {<<r>> : r \in RaceRecords}]
    /\ catalog \in {{}, {SalesLink}}
    /\ idx = [i \in Invs |-> 1]
    /\ pc = [i \in Invs |-> "loop"]
    /\ err = [i \in Invs |-> ""]
    /\ built = [i \in Invs |-> NoBuilt]
    /\ linkName = [i \in Invs |-> <<>>]
    /\ lfCalls = <<>>
    /\ glueCalls = <<>>
    /\ published = <<>>
    /\ responses = <<>>
    /\ sleeps = <<>>

NextRace ==
    \E i \in Invs :
        \/ Consumption_Begin(i)
        \/ Consumption_Lookup(i)
        \/ Consumption_Create(i)
        \/ Consumption_Describe(i)
        \/ Consumption_Apply(i)

SpecRace == InitRace /\ [][NextRace]_vars

\* at-least-once delivery: the batch of invocation 1 is delivered again to the
\* next invocation of the same function once the previous one has ended
Redeliver(i) ==
    /\ i > 1 /\ pc[i] = "off" /\ pc[i - 1] \in {"done", "failed"}
    /\ batch' = [batch EXCEPT ![i] = batch[1]]
    /\ pc' = [pc EXCEPT ![i] = "loop"]
    /\ UNCHANGED <<path, idx, err, built, linkName, lfCalls, glueCalls, catalog,
                   published, responses, sleeps>>

InitRedeliver ==
    /\ \E p \in {"central", "consumption"}, r \in Records :
         /\ path = [i \in Invs |-> p]
         /\ batch = [i \in Invs |-> IF i = 1 THEN <<r>> ELSE <<>>]
         /\ catalog \in IF p = "consumption" THEN {{}, {SalesLink}} ELSE {{}}
    /\ idx = [i \in Invs |-> 1]
    /\ pc = [i \in Invs |-> IF i = 1 THEN "loop" ELSE "off"]
    /\ err = [i \in Invs |-> ""]
    /\ built = [i \in Invs |-> NoBuilt]
    /\ linkName = [i \in Invs |-> <<>>]
    /\ lfCalls = <<>>
    /\ glueCalls = <<>>
    /\ published = <<>>
    /\ responses = <<>>
    /\ sleeps = <<>>

NextRedeliver ==
    \E i \in Invs :
        \/ Redeliver(i)
        \/ Central_Build(i)
        \/ Central_Apply(i)
        \/ Consumption_Begin(i)
        \/ Consumption_Lookup(i)
        \/ Consumption_Create(i)
        \/ Consumption_Describe(i)
        \/ Consumption_Apply(i)

SpecRedeliver == InitRedeliver /\ [][NextRedeliver]_vars

\* the worker whose queue is subscribed with the routing attribute account_id
RouteOf(account_id) ==
    IF account_id = CentralAccountId THEN Some("central")
    ELSE IF account_id = ConsumptionAccountId THEN Some("consumption")
    ELSE Absent

\* the transport hands published message n to an idle invocation of the worker
\* it is routed to, as a batch of one record (perms_to_set, read at central
\* line 238, consumption line 282); it keeps no order between messages and
\* may hand a message over more than once
Deliver(i, n) ==
    /\ pc[i] = "off"
    /\ Has(RouteOf(published[n].call.msg.account_id))
    /\ path' = [path EXCEPT ![i] = Get(RouteOf(published[n].call.msg.account_id))]
    /\ batch' = [batch EXCEPT ![i] = <<published[n].call.msg.perms_to_set>>]
    /\ pc' = [pc EXCEPT ![i] = "loop"]
    /\ UNCHANGED <<idx, err, built, linkName, lfCalls, glueCalls, catalog,
                   published, responses, sleeps>>

PipelineRecords == Records \cup AccessTypeSlice

\* invocation 1 is the dispatcher; the others are workers waiting for messages
InitPipeline ==
    /\ path = [i \in Invs |-> IF i = 1 THEN "dispatcher" ELSE "central"]
    /\ \E r \in PipelineRecords :
          batch = [i \in Invs |-> IF i = 1 THEN <<r>> ELSE <<>>]
    /\ catalog = {}
    /\ idx = [i \in Invs |-> 1]
    /\ pc = [i \in Invs |-> IF i = 1 THEN "loop" ELSE "off"]
    /\ err = [i \in Invs |-> ""]
    /\ built = [i \in Invs |-> NoBuilt]
    /\ linkName = [i \in Invs |-> <<>>]
    /\ lfCalls = <<>>
    /\ glueCalls = <<>>
    /\ published = <<>>
    /\ responses = <<>>
    /\ sleeps = <<>>

WorkerStep(i) ==
    \/ Central_Build(i)
    \/ Central_Apply(i)
    \/ Consumption_Begin(i)
    \/ Consumption_Lookup(i)
    \/ Consumption_Create(i)
    \/ Consumption_Describe(i)
    \/ Consumption_Apply(i)

NextPipeline ==
    \E i \in Invs :
        \/ Dispatcher_Record(i)
        \/ \E n \in DOMAIN published : Deliver(i, n)
        \/ WorkerStep(i)

SpecPipeline == InitPipeline /\ [][NextPipeline]_vars

(***************************************************************************)
(* Service calls that raise.  The clients raise botocore's ClientError,    *)
(* whose message names the operation; no handler catches it except to log  *)
(* and re-raise, so the invocation ends with it.  A call that raises has   *)
(* no effect on the service and is not entered in lfCalls.                 *)
(***************************************************************************)
GetDatabaseError == "ClientError:GetDatabase"

GrantPermissionsError == "ClientError:GrantPermissions"

RevokePermissionsError == "ClientError:RevokePermissions"

PermissionServiceErrors == {GrantPermissionsError, RevokePermissionsError}

\* check_db_exist that answers False to any exception of get_database
Consumption_Lookup_Error_as_not_found(i) ==
    /\ path[i] = "consumption" /\ pc[i] = "lookup"
    /\ glueCalls' = Append(glueCalls, Tag(i, idx[i],
                        [api |-> "get_database", Name |-> linkName[i]]))
    /\ pc' = [pc EXCEPT ![i] = "create"]
    /\ UNCHANGED <<path, batch, idx, err, built, linkName, lfCalls, catalog, published, responses, sleeps>>

\* check_db_exist lines 45-51: get_database raises something other than
\* EntityNotFoundException, whatever the catalog holds
Consumption_Lookup_Error(i) ==
    /\ path[i] = "consumption" /\ pc[i] = "lookup"
    /\ glueCalls' = Append(glueCalls, Tag(i, idx[i],
                        [api |-> "get_database", Name |-> linkName[i]]))
    /\ Fail(i, GetDatabaseError)
    /\ UNCHANGED <<path, batch, linkName, lfCalls, catalog, published, responses, sleeps>>

\* consumption grant_db_describe lines 102-104: grant_permissions raises
Consumption_Describe_Error(i) ==
    /\ path[i] = "consumption" /\ pc[i] = "describe"
    /\ Fail(i, GrantPermissionsError)
    /\ UNCHANGED <<path, batch, linkName, lfCalls, glueCalls, catalog, published, responses, sleeps>>

\* central grant_db_describe lines 46-48: grant_permissions raises
Central_Build_Error(i) ==
    /\ path[i] = "central" /\ pc[i] = "loop"
    /\ Has(Central_buildjson(batch[i][idx[i]], CentralAccountId).describe)
    /\ Fail(i, GrantPermissionsError)
    /\ UNCHANGED <<path, batch, linkName, lfCalls, glueCalls, catalog, published, responses, sleeps>>

\* the exception of the call that `call` would have made
ServiceErrorOf(call) ==
    IF call.api = "grant_permissions" THEN GrantPermissionsError
    ELSE RevokePermissionsError

\* grant_lf_permissions / revoke_lf_permissions whose except clause logs the
\* exception and does not raise it again
Central_Apply_Error_not_raised(i) ==
    /\ path[i] = "central" /\ pc[i] = "apply"
    /\ Central_apply(batch[i][idx[i]], built[i]).err = ""
    /\ pc' = [pc EXCEPT ![i] = "done"]
    /\ UNCHANGED <<path, batch, idx, err, built, linkName, lfCalls, glueCalls, catalog, published, responses, sleeps>>

\* central grant_lf_permissions / revoke_lf_permissions: the call raises and
\* the except clause re-raises (lines 196-198, 228-230)
Central_Apply_Error(i) ==
    /\ path[i] = "central" /\ pc[i] = "apply"
    /\ LET r == Central_apply(batch[i][idx[i]], built[i])
       IN  r.err = "" /\ Fail(i, ServiceErrorOf(Get(r.val)))
    /\ UNCHANGED <<path, batch, linkName, lfCalls, glueCalls, catalog, published, responses, sleeps>>

\* consumption grant_lf_permissions / revoke_lf_permissions: the call raises
\* and the except clause re-raises (lines 241-243, 273-275)
Consumption_Apply_Error(i) ==
    /\ path[i] = "consumption" /\ pc[i] = "apply"
    /\ LET r == Consumption_apply(batch[i][idx[i]], built[i])
       IN  r.err = "" /\ Fail(i, ServiceErrorOf(Get(r.val)))
    /\ UNCHANGED <<path, batch, linkName, lfCalls, glueCalls, catalog, published, responses, sleeps>>

\* one worker invocation on any batch, whose service calls may raise
InitFaults ==
    /\ \E p \in {"central", "consumption"}, b \in Batches :
         /\ path = [i \in Invs |-> p]
         /\ batch = [i \in Invs |-> IF i = 1 THEN b ELSE <<>>]
         /\ catalog \in IF p = "consumption" THEN {{}, {SalesLink}} ELSE {{}}
    /\ idx = [i \in Invs |-> 1]
    /\ pc = [i \in Invs |-> IF i = 1 THEN "loop" ELSE "off"]
    /\ err = [i \in Invs |-> ""]
    /\ built = [i \in Invs |-> NoBuilt]
    /\ linkName = [i \in Invs |-> <<>>]
    /\ lfCalls = <<>>
    /\ glueCalls = <<>>
    /\ published = <<>>
    /\ responses = <<>>
    /\ sleeps = <<>>

NextFaults ==
    \E i \in Invs :
        \/ WorkerStep(i)
        \/ Consumption_Lookup_Error(i)
        \/ Consumption_Describe_Error(i)
        \/ Central_Build_Error(i)
        \/ Central_Apply_Error(i)
        \/ Consumption_Apply_Error(i)

SpecFaults == InitFaults /\ [][NextFaults]_vars

(***************************************************************************)
(* Properties                                                              *)
(***************************************************************************)
Workers == {i \in Invs : path[i] \in {"central", "consumption"}}

\* the record a logged call or message was made for
RecordOf(t) == batch[t.inv][t.rec]

\* a permission-service call on a Table or TableWithColumns resource
IsFine(t) == ~Has(t.call.Resource.Database)

FineCalls(i, k) == {n \in DOMAIN lfCalls :
                      lfCalls[n].inv = i /\ lfCalls[n].rec = k /\ IsFine(lfCalls[n])}

\* C1: a worker invocation that returns without an error has issued exactly
\* one fine-grained grant or revoke call for each record of its batch.
C1_EveryRecordApplied ==
    \A i \in Workers :
        pc[i] = "done" =>
            \A k \in 1..Len(batch[i]) : Cardinality(FineCalls(i, k)) = 1

\* C2: every fine-grained call of the central worker carries exactly the
\* permissions {SELECT, DESCRIBE}.
C2_CentralPermissionsAreCeiling ==
    \A n \in DOMAIN lfCalls :
        (path[lfCalls[n].inv] = "central" /\ IsFine(lfCalls[n]))
            => lfCalls[n].call.Permissions = {"SELECT", "DESCRIBE"}

\* C3: every fine-grained call of the consumption worker carries exactly the
\* permissions {SELECT}.
C3_ConsumptionPermissionsAreSelect ==
    \A n \in DOMAIN lfCalls :
        (path[lfCalls[n].inv] = "consumption" /\ IsFine(lfCalls[n]))
            => lfCalls[n].call.Permissions = {"SELECT"}

\* C4: no permission-service call of the consumption worker carries the
\* PermissionsWithGrantOption parameter.
C4_NoGrantOptionOnConsumption ==
    \A n \in DOMAIN lfCalls :
        path[lfCalls[n].inv] = "consumption"
            => ~Has(lfCalls[n].call.PermissionsWithGrantOption)

\* a consumption grant was issued for a record that asks for a grant option
C4_Witness ==
    \E n \in DOMAIN lfCalls :
        /\ path[lfCalls[n].inv] = "consumption"
        /\ IsFine(lfCalls[n])
        /\ lfCalls[n].call.api = "grant_permissions"
        /\ Has(RecordOf(lfCalls[n]).PermissionsWithGrantOption)
        /\ Get(RecordOf(lfCalls[n]).PermissionsWithGrantOption) # {}

\* C5: when all concurrent consumption invocations have ended, all of them
\* ended in success and each database they ensured has exactly one link.
C5_ConcurrentEnsureSucceeds ==
    (\A i \in Invs : pc[i] \in {"done", "failed"}) =>
        /\ \A i \in Invs : pc[i] = "done"
        /\ \A i \in Invs :
             Cardinality({l \in catalog : l.Name = linkName[i]}) = 1

BothSelectors(r) == Has(r.Table) /\ Has(r.TableWithColumns)

\* C6: no permission-service call and no catalog call is made for a record
\* in which both Table and TableWithColumns are populated.
C6_BothSelectorsRejected ==
    /\ \A n \in DOMAIN lfCalls : ~BothSelectors(RecordOf(lfCalls[n]))
    /\ \A n \in DOMAIN glueCalls : ~BothSelectors(RecordOf(glueCalls[n]))

Dispatchers == {i \in Invs : path[i] = "dispatcher"}

PublishedBy(i) == {n \in DOMAIN published : published[n].inv = i}

\* the exceptions the dispatcher raises for a record it does not accept
ValidationErrors == {"KeyError:Principal", "TypeError", "LFAttributeError"}

\* C7 as stated: when a dispatcher invocation has raised, no message has been
\* published for any record of the batch other than the one that failed.
C7_NoPartialProgress ==
    \A i \in Dispatchers :
        (pc[i] = "failed" /\ err[i] \in ValidationErrors) =>
            \A n \in PublishedBy(i) : published[n].rec = idx[i]

\* C7 as amended: when a record fails validation the invocation raises at that
\* record; nothing is published for it or for any later record, and the
\* original record of every preceding record stays published.
C7_AbortKeepsEarlierPublishes ==
    \A i \in Dispatchers :
        (pc[i] = "failed" /\ err[i] \in ValidationErrors) =>
            /\ \A n \in PublishedBy(i) : published[n].rec < idx[i]
            /\ \A k \in 1..(idx[i] - 1) :
                 \E n \in PublishedBy(i) :
                    /\ published[n].rec = k
                    /\ published[n].call.kind = "original"
                    /\ published[n].call.msg.perms_to_set = batch[i][k]

\* the second record of a batch failed validation after the first was published
C7_Witness ==
    \E i \in Dispatchers :
        /\ pc[i] = "failed" /\ err[i] \in ValidationErrors
        /\ idx[i] = 2
        /\ PublishedBy(i) # {}

\* AccessType is grant and the account id of the principal ARN is not the
\* central account id
CrossAccountGrant(r) ==
    /\ r.AccessType = "grant"
    /\ Has(r.Principal)
    /\ Len(Get(r.Principal)) >= 6
    /\ Get(r.Principal)[1] = "arn"
    /\ Get(r.Principal)[5] # CentralAccountId

\* C8: a DB-describe intent is published only for a cross-account grant
\* record, and for such a record it is published before the original record;
\* every record the dispatcher got past has its original record published.
C8_DescribeBeforeOriginal ==
    /\ \A n \in DOMAIN published :
         LET m == published[n]
         IN  /\ m.call.kind = "describe" => CrossAccountGrant(RecordOf(m))
             /\ (m.call.kind = "original" /\ CrossAccountGrant(RecordOf(m))) =>
                   \E n2 \in 1..(n - 1) :
                      /\ published[n2].inv = m.inv
                      /\ published[n2].rec = m.rec
                      /\ published[n2].call.kind = "describe"
    /\ \A i \in Dispatchers :
         \A k \in 1..Len(batch[i]) :
            (k < idx[i] \/ pc[i] = "done") =>
               \E n \in PublishedBy(i) :
                  published[n].rec = k /\ published[n].call.kind = "original"

\* a batch was dispatched that holds a cross-account grant and a record that
\* is not one
C8_Witness ==
    \E i \in Dispatchers :
        /\ pc[i] = "done"
        /\ \E n \in PublishedBy(i) : published[n].call.kind = "describe"
        /\ \E k \in 1..Len(batch[i]) : ~CrossAccountGrant(batch[i][k])

\* C9 as stated: the routing attribute of every published message is the
\* account id of the principal ARN of the record it was published for.
C9_RoutingIsPrincipalAccount ==
    \A n \in DOMAIN published :
        LET p == Get(RecordOf(published[n]).Principal)
        IN  /\ Len(p) >= 6
            /\ p[1] = "arn"
            /\ published[n].call.msg.account_id = p[5]

\* C9 as amended: the DB-describe intent is routed with the dispatcher's own
\* (central) account id, the original record with its own AccountID field.
C9_RoutingAttribute ==
    \A n \in DOMAIN published :
        LET m == published[n]
        IN  /\ m.call.kind = "describe" => m.call.msg.account_id = CentralAccountId
            /\ m.call.kind = "original" =>
                  m.call.msg.account_id = Get(RecordOf(m).AccountID)

\* a describe intent and an original record were published for a principal of
\* an account other than the one in the routing attribute of either
C9_Witness ==
    \E n1, n2 \in DOMAIN published :
        /\ published[n1].call.kind = "describe"
        /\ published[n2].call.kind = "original"
        /\ published[n2].inv = published[n1].inv
        /\ published[n2].rec = published[n1].rec
        /\ published[n1].call.msg.account_id
              # Get(RecordOf(published[n1]).Principal)[5]
        /\ published[n2].call.msg.account_id
              # Get(RecordOf(published[n2]).Principal)[5]

InvalidPrincipal(r) ==
    /\ Has(r.Principal)
    /\ ~(Len(Get(r.Principal)) >= 6 /\ Get(r.Principal)[1] = "arn")

\* C10: nothing is published and nothing is sent to the permission service
\* for a record whose Principal does not match the ARN grammar, and an
\* invocation that has got to such a record has failed.
C10_InvalidPrincipalRejected ==
    /\ \A n \in DOMAIN published : ~InvalidPrincipal(RecordOf(published[n]))
    /\ \A n \in DOMAIN lfCalls : ~InvalidPrincipal(RecordOf(lfCalls[n]))
    /\ \A i \in Invs :
         (pc[i] = "done") =>
            \A k \in 1..Len(batch[i]) : ~InvalidPrincipal(batch[i][k])

\* the record has neither selector, or the selector the code picks (Table
\* when present, else TableWithColumns) has no DatabaseName
LacksDatabase(r) ==
    \/ ~Has(r.Table) /\ ~Has(r.TableWithColumns)
    \/ Has(r.Table) /\ ~Has(Get(r.Table).DatabaseName)
    \/ ~Has(r.Table) /\ Has(r.TableWithColumns)
         /\ ~Has(Get(r.TableWithColumns).DatabaseName)

\* C11: a record without DatabaseName in its selector, or without selector,
\* makes the worker fail with LFAttributeError at that record, with no
\* permission-service call and no catalog call made for it; the dispatcher
\* fails the same way, with nothing published for the record, when it derives
\* the DB-describe record of such a record.
C11_MissingDatabaseRejected ==
    /\ \A n \in DOMAIN lfCalls : ~LacksDatabase(RecordOf(lfCalls[n]))
    /\ \A n \in DOMAIN glueCalls : ~LacksDatabase(RecordOf(glueCalls[n]))
    /\ \A i \in Workers :
         /\ \A k \in 1..(idx[i] - 1) : ~LacksDatabase(batch[i][k])
         /\ (pc[i] \notin {"off", "loop"} /\ LacksDatabase(batch[i][idx[i]]))
               => (pc[i] = "failed" /\ err[i] = "LFAttributeError")
    /\ \A i \in Dispatchers :
         (pc[i] \notin {"off", "loop"} /\ LacksDatabase(batch[i][idx[i]])
            /\ CrossAccountGrant(batch[i][idx[i]]))
               => /\ pc[i] = "failed" /\ err[i] = "LFAttributeError"
                  /\ \A n \in PublishedBy(i) : published[n].rec # idx[i]

\* a worker failed at the second record of its batch, which has a selector
\* without DatabaseName, after it made the calls of the first record
C11_Witness ==
    \E i \in Workers :
        /\ pc[i] = "failed" /\ err[i] = "LFAttributeError"
        /\ idx[i] = 2
        /\ LacksDatabase(batch[i][2])
        /\ Has(batch[i][2].Table) \/ Has(batch[i][2].TableWithColumns)
        /\ lfCalls # <<>>

\* The permission service keeps (principal, resource, permission) tuples: a
\* grant adds the tuples of its call, a revoke removes them.
GrantTuples(c) ==
    { [Principal |-> c.Principal, Resource |-> c.Resource,
       Permission |-> p, Grantable |-> FALSE] : p \in c.Permissions }
    \cup
    { [Principal |-> c.Principal, Resource |-> c.Resource,
       Permission |-> p, Grantable |-> TRUE] :
         p \in (IF Has(c.PermissionsWithGrantOption)
                THEN Get(c.PermissionsWithGrantOption) ELSE {}) }

RevokedTuples(c) ==
    { [Principal |-> c.Principal, Resource |-> c.Resource,
       Permission |-> p, Grantable |-> g] : p \in c.Permissions, g \in BOOLEAN }

ApplyCall(st, c) ==
    IF c.api = "grant_permissions" THEN st \cup GrantTuples(c)
    ELSE st \ RevokedTuples(c)

RECURSIVE LfStateUpTo(_, _)
LfStateUpTo(calls, n) ==
    IF n = 0 THEN {} ELSE ApplyCall(LfStateUpTo(calls, n - 1), calls[n].call)

\* the state of the permission service after the calls of the log
LfState(calls) == LfStateUpTo(calls, Len(calls))

\* C12: once the first delivery of a record has ended without error, no step
\* of a later delivery of the same record changes the permission-service
\* state or the catalog, and no later delivery fails.
C12_RedeliveryIdempotent ==
    [][ pc[1] = "done" =>
          /\ LfState(lfCalls') = LfState(lfCalls)
          /\ catalog' = catalog
          /\ \A i \in Invs : pc'[i] # "failed" ]_vars

\* a grant record was delivered twice and both invocations have returned
C12_Witness ==
    /\ pc[1] = "done" /\ pc[2] = "done"
    /\ batch[2] = batch[1]
    /\ batch[1][1].AccessType = "grant"
    /\ \E n \in DOMAIN lfCalls : lfCalls[n].inv = 2 /\ IsFine(lfCalls[n])

\* the DatabaseName of the selector the code picks, for a record that has one
InputDatabase(r) ==
    IF Has(r.Table) THEN Get(Get(r.Table).DatabaseName)
    ELSE Get(Get(r.TableWithColumns).DatabaseName)

\* the DatabaseName in the resource of a fine-grained call
SentDatabase(c) ==
    IF Has(c.Resource.Table) THEN Get(c.Resource.Table).DatabaseName
    ELSE Get(c.Resource.TableWithColumns).DatabaseName

\* a name with its leading "foundation_" removed, when it starts with it
WithoutLeadingPrefix(db) ==
    IF Len(db) >= 1 /\ db[1] = FoundationPrefix THEN Tail(db) ELSE db

\* C13: the DatabaseName of every fine-grained call is the input DatabaseName
\* without its leading "foundation_", and the input DatabaseName itself when
\* it does not start with "foundation_".
C13_LeadingPrefixStripped ==
    \A n \in DOMAIN lfCalls :
        IsFine(lfCalls[n]) =>
            SentDatabase(lfCalls[n].call)
               = WithoutLeadingPrefix(InputDatabase(RecordOf(lfCalls[n])))

\* C14: the DB-level DESCRIBE grant of the central worker for a record whose
\* DatabaseName is "foundation_" followed by d names the database d.
C14_CentralDescribeOnBareName ==
    \A n \in DOMAIN lfCalls :
        LET t == lfCalls[n]
            db == InputDatabase(RecordOf(t))
        IN  (path[t.inv] = "central" /\ ~IsFine(t) /\ db[1] = FoundationPrefix)
               => Get(t.call.Resource.Database).Name = Tail(db)

\* C16: every resource link in the catalog is named "foundation_" followed by
\* the name of its target database, and targets the foundation account.
C16_LinkNameIsPrefixedTarget ==
    \A l \in catalog :
        /\ l.Name = <<FoundationPrefix>> \o l.TargetDatabase.DatabaseName
        /\ l.TargetDatabase.CatalogId = FoundationAccountId

\* C15: when the consumption worker has made a permission-service call for a
\* record, it has looked up the resource link of the record's database
\* before, and the catalog holds that link: the link named in a DB-level call,
\* a link to the foundation database named in a fine-grained call.
C15_LinkBeforeGrant ==
    \A n \in DOMAIN lfCalls :
        LET t == lfCalls[n]
        IN  path[t.inv] = "consumption" =>
              /\ \E g \in DOMAIN glueCalls :
                    /\ glueCalls[g].inv = t.inv
                    /\ glueCalls[g].rec = t.rec
                    /\ glueCalls[g].call.api = "get_database"
              /\ IF IsFine(t)
                 THEN \E l \in catalog :
                        /\ l.TargetDatabase.DatabaseName = SentDatabase(t.call)
                        /\ l.TargetDatabase.CatalogId = FoundationAccountId
                 ELSE \E l \in catalog :
                        l.Name = Get(t.call.Resource.Database).Name

\* the consumption worker created the link of a record and then issued the
\* fine-grained grant of that record
C15_Witness ==
    \E n \in DOMAIN lfCalls, g \in DOMAIN glueCalls :
        /\ path[lfCalls[n].inv] = "consumption"
        /\ IsFine(lfCalls[n])
        /\ lfCalls[n].call.api = "grant_permissions"
        /\ glueCalls[g].inv = lfCalls[n].inv
        /\ glueCalls[g].rec = lfCalls[n].rec
        /\ glueCalls[g].call.api = "create_database"

OriginalsOf(i, k) == {n \in PublishedBy(i) :
                         published[n].rec = k /\ published[n].call.kind = "original"}

\* C17: every record the dispatcher got past without an error has its
\* original record published exactly once, whatever its AccessType and
\* whatever the response to the publish of its DB-describe record; the
\* handler sleeps at most once for a record, and only for a record whose
\* DB-describe publish was answered with status 200.
C17_OriginalPublishedOnce ==
    /\ \A i \in Dispatchers :
         \A k \in 1..Len(batch[i]) :
            /\ (k < idx[i] \/ pc[i] = "done") => Cardinality(OriginalsOf(i, k)) = 1
            /\ Cardinality(OriginalsOf(i, k)) <= 1
    /\ \A s \in DOMAIN sleeps :
         /\ \E n \in DOMAIN published :
               /\ published[n].inv = sleeps[s].inv
               /\ published[n].rec = sleeps[s].rec
               /\ published[n].call.kind = "describe"
               /\ responses[n] = 200
         /\ \A s2 \in DOMAIN sleeps : sleeps[s2] = sleeps[s] => s2 = s

\* the original record of a grant was published although the publish of its
\* DB-describe record was not answered with status 200, and without a sleep
C17_Witness ==
    \E n \in DOMAIN published :
        /\ published[n].call.kind = "describe"
        /\ responses[n] # 200
        /\ OriginalsOf(published[n].inv, published[n].rec) # {}
        /\ pc[published[n].inv] = "done"
        /\ \A s \in DOMAIN sleeps : sleeps[s].rec # published[n].rec

\* invocation i was handed published message n
Holds(i, n) ==
    /\ i # published[n].inv
    /\ pc[i] # "off"
    /\ batch[i] = <<published[n].call.msg.perms_to_set>>

\* the DB-describe message published for the same record as message n
DescribeOf(n) ==
    {d \in DOMAIN published :
        /\ published[d].inv = published[n].inv
        /\ published[d].rec = published[n].rec
        /\ published[d].call.kind = "describe"}

\* C18: a worker that holds the original record of a cross-account grant never
\* waits for the DB-describe record, although that record was published
\* before the original: each of its steps is enabled whether or not any
\* worker has been handed the DB-describe record.
C18_PauseIsNoSynchronization ==
    \A i \in Invs, n \in DOMAIN published :
        (/\ published[n].call.kind = "original"
         /\ CrossAccountGrant(RecordOf(published[n]))
         /\ Holds(i, n))
           => /\ \E d \in DescribeOf(n) : d < n
              /\ pc[i] \notin {"done", "failed"} => ENABLED WorkerStep(i)

\* the fine-grained grant of an original record has been processed to the
\* end while no worker has been handed the DB-describe record that was
\* published before it, acknowledged and followed by the sleep
C18_Witness ==
    \E i \in Invs, n \in DOMAIN published :
        /\ published[n].call.kind = "original"
        /\ Holds(i, n)
        /\ pc[i] = "done"
        /\ \E c \in DOMAIN lfCalls :
              /\ lfCalls[c].inv = i /\ IsFine(lfCalls[c])
              /\ lfCalls[c].call.api = "grant_permissions"
        /\ \E d \in DescribeOf(n) :
              /\ d < n
              /\ responses[d] = 200
              /\ \E s \in DOMAIN sleeps : sleeps[s].rec = published[n].rec
              /\ \A j \in Invs : ~Holds(j, d)

DescribeMsgs == {n \in DOMAIN published : published[n].call.kind = "describe"}

\* C19 as stated: the DB-describe record asks for DESCRIBE alone, without
\* grant option, for the principal of the original record.
C19_DescribeIntentIsDescribeOnly ==
    \A n \in DescribeMsgs :
        LET m == published[n].call.msg.perms_to_set
        IN  /\ m.Permissions = Some({"DESCRIBE"})
            /\ ~Has(m.PermissionsWithGrantOption)
            /\ m.Principal = RecordOf(published[n]).Principal

\* C19: the DB-describe record is a grant of SELECT and DESCRIBE, both with
\* grant option, on every table (TableWildcard) of the database named by the
\* original record, to the account of the original record's principal, and
\* is addressed to the central account.
C19_DescribeIntentAsBuilt ==
    \A n \in DescribeMsgs :
        LET m == published[n].call.msg.perms_to_set
            r == RecordOf(published[n])
        IN  /\ m.Permissions = Some({"SELECT", "DESCRIBE"})
            /\ m.PermissionsWithGrantOption = Some({"SELECT", "DESCRIBE"})
            /\ m.AccessType = "grant"
            /\ m.Table = Some(MkTable(Some(InputDatabase(r)), Absent, Some(EmptyObj)))
            /\ ~Has(m.TableWithColumns)
            /\ m.Principal = Some(<<Get(r.Principal)[5]>>)
            /\ m.AccountID = Some(CentralAccountId)

\* a DB-describe record has been published for a record that names its
\* database in a TableWithColumns selector
C19_Witness ==
    \E n \in DescribeMsgs :
        /\ Has(RecordOf(published[n]).TableWithColumns)
        /\ ~Has(RecordOf(published[n]).Table)

\* the permission-service calls on a Database resource made for record k
DbCalls(i, k) == {n \in DOMAIN lfCalls :
                    lfCalls[n].inv = i /\ lfCalls[n].rec = k /\ ~IsFine(lfCalls[n])}

\* the worker has left buildjson's selector branch for record k
PastDescribe(i, k) ==
    \/ k < idx[i]
    \/ k = idx[i] /\ pc[i] \in {"apply", "done", "failed"}

\* C20: for every record of a worker's batch that has a Principal and a
\* DatabaseName in the selector buildjson reads, whatever its AccessType,
\* once the worker is past buildjson's selector branch for it there is
\* exactly one call on a Database resource for it, a grant of DESCRIBE alone
\* to the record's principal, and it precedes every fine-grained grant or
\* revoke call made for that record; no record ever has two such calls.
C20_OneDescribeGrantBeforeFineCall ==
    \A i \in Workers : \A k \in 1..Len(batch[i]) :
        LET r == batch[i][k]
        IN  /\ Cardinality(DbCalls(i, k)) <= 1
            /\ (Has(r.Principal) /\ ~LacksDatabase(r) /\ PastDescribe(i, k))
                  => /\ Cardinality(DbCalls(i, k)) = 1
                     /\ \A d \in DbCalls(i, k) :
                           /\ lfCalls[d].call.api = "grant_permissions"
                           /\ lfCalls[d].call.Permissions = {"DESCRIBE"}
                           /\ ~Has(lfCalls[d].call.PermissionsWithGrantOption)
                           /\ lfCalls[d].call.Principal =
                                 Some([DataLakePrincipalIdentifier |-> Get(r.Principal)])
                           /\ \A f \in FineCalls(i, k) : d < f

\* a worker has returned after the revoke call of a revoke record, whose
\* database grant precedes it
C20_Witness ==
    \E i \in Workers : \E k \in 1..Len(batch[i]) :
        /\ pc[i] = "done"
        /\ batch[i][k].AccessType = "revoke"
        /\ \E d \in DbCalls(i, k), f \in FineCalls(i, k) :
              d < f /\ lfCalls[f].call.api = "revoke_permissions"

\* the catalog calls of an api made for record k of invocation i
GlueCallsOf(i, k, api) ==
    {n \in DOMAIN glueCalls :
        glueCalls[n].inv = i /\ glueCalls[n].rec = k /\ glueCalls[n].call.api = api}

\* the create calls of invocation i
CreatesOf(i) ==
    {n \in DOMAIN glueCalls :
        glueCalls[n].inv = i /\ glueCalls[n].call.api = "create_database"}

CreateCall(i) == Tag(i, idx[i], [api |-> "create_database", Name |-> linkName[i]])

\* an invocation that ended on a lookup error has made, for the record it
\* was at, the lookup and nothing else, and no fine-grained call at all
LookupErrorIsFatal ==
    \A i \in Invs :
        (pc[i] = "failed" /\ err[i] = GetDatabaseError)
            => /\ GlueCallsOf(i, idx[i], "create_database") = {}
               /\ \A n \in DOMAIN lfCalls :
                     lfCalls[n].inv = i => lfCalls[n].rec < idx[i] /\ ~IsFine(lfCalls[n])
               /\ \A n \in DOMAIN glueCalls :
                     glueCalls[n].inv = i => glueCalls[n].rec <= idx[i]

\* a step of invocation i away from the lookup, and away from the creation
NotFoundThenOneCreate ==
    \A i \in Invs :
        /\ (pc[i] = "lookup" /\ pc'[i] = "create")
              => ~(\E l \in catalog : l.Name = linkName[i])
        /\ (pc[i] = "lookup" /\ pc'[i] = "describe")
              => \E l \in catalog : l.Name = linkName[i]
        /\ (pc[i] = "lookup" /\ pc'[i] # "lookup")
              => /\ pc'[i] \in {"create", "describe", "failed"}
                 /\ lfCalls' = lfCalls /\ catalog' = catalog
                 /\ pc'[i] = "failed" => err'[i] = GetDatabaseError
        /\ (pc[i] = "create" /\ pc'[i] # "create")
              => glueCalls' = Append(glueCalls, CreateCall(i))
        /\ pc[i] # "create" => CreatesOf(i)' = CreatesOf(i)

\* C21: a lookup that fails otherwise than by not-found ends the invocation
\* with that error, with no create call for the record and no permission
\* call from then on; a lookup that does not find the link, and only such a
\* lookup, is followed by exactly one create call.
C21_LookupFailureIsFatal ==
    /\ []LookupErrorIsFatal
    /\ [][NotFoundThenOneCreate]_vars

\* the lookup of the second record fails after the link of the first record
\* was created
C21_Witness ==
    \E i \in Invs :
        /\ pc[i] = "failed" /\ err[i] = GetDatabaseError
        /\ idx[i] = 2
        /\ GlueCallsOf(i, 1, "create_database") # {}

LinkExists(cat, name) == \E l \in cat : l.Name = name

CatalogStep ==
    /\ catalog \subseteq catalog'
    /\ \A l1, l2 \in catalog' : l1.Name = l2.Name => l1 = l2
    /\ catalog' # catalog
          => \E i \in Invs :
                /\ pc[i] = "create"
                /\ ~LinkExists(catalog, linkName[i])
                /\ catalog' = catalog \cup
                       {Consumption_DatabaseInput(linkName[i], FoundationAccountId)}
    /\ \A i \in Invs :
          /\ (pc[i] = "lookup" /\ LinkExists(catalog, linkName[i]))
                => pc'[i] \in {"lookup", "describe"}
          /\ pc[i] # "create" => CreatesOf(i)' = CreatesOf(i)

\* C22: over consumption invocations running one after the other or at the
\* same time, on the same record or on different ones, every step keeps the
\* links the catalog holds as they are, adds a link only under a name the
\* catalog does not hold (so a name gets a link at most once), and an
\* invocation whose lookup finds the link goes on without a create call.
C22_LinksAreKept == [][CatalogStep]_vars

\* two invocations for the same link have ended: the first created it, the
\* second found it and made no create call
C22_Witness ==
    \E i, j \in Invs :
        /\ i # j /\ pc[i] = "done" /\ pc[j] = "done"
        /\ linkName[i] = linkName[j]
        /\ CreatesOf(i) # {} /\ CreatesOf(j) = {}
        /\ Cardinality({l \in catalog : l.Name = linkName[i]}) = 1

CallsOf(log, i) == {n \in DOMAIN log : log[n].inv = i}

\* a worker returns normally only when the database grant of every record
\* and the fine-grained call after the loop have been made
ReturnMeansCallsMade ==
    \A i \in Workers :
        pc[i] = "done"
            => /\ \A k \in 1..Len(batch[i]) : DbCalls(i, k) # {}
               /\ FineCalls(i, Len(batch[i])) # {}

FailureStep ==
    \A i \in Invs :
        /\ pc[i] = "failed"
              => /\ pc'[i] = "failed" /\ err'[i] = err[i]
                 /\ CallsOf(lfCalls', i) = CallsOf(lfCalls, i)
                 /\ CallsOf(glueCalls', i) = CallsOf(glueCalls, i)
        /\ (pc[i] # "failed" /\ pc'[i] = "failed" /\ err'[i] \in PermissionServiceErrors)
              => /\ pc[i] \in {"loop", "describe", "apply"}
                 /\ lfCalls' = lfCalls /\ glueCalls' = glueCalls /\ catalog' = catalog
        /\ Len(lfCalls') >= Len(lfCalls)
        /\ SubSeq(lfCalls', 1, Len(lfCalls)) = lfCalls

\* C23: when a permission-service call raises, the invocation ends with that
\* error: the failing step and every later step add no call by that
\* invocation and take none back (the calls made before stay in the log and
\* the catalog is as it was), and an invocation that returns normally has
\* had none of its calls fail.
C23_ServiceErrorEndsInvocation ==
    /\ []ReturnMeansCallsMade
    /\ [][FailureStep]_vars

\* the revoke call raised after the database grant of the record was made
C23_Witness ==
    \E i \in Workers :
        /\ pc[i] = "failed" /\ err[i] = RevokePermissionsError
        /\ DbCalls(i, idx[i]) # {}
        /\ FineCalls(i, idx[i]) = {}

CentralFineCalls ==
    {n \in DOMAIN lfCalls : path[lfCalls[n].inv] = "central" /\ IsFine(lfCalls[n])}

\* C24: a fine-grained grant of the central worker carries
\* PermissionsWithGrantOption = {SELECT, DESCRIBE} when the record has the
\* field, whatever it lists, and the empty list when the record has not; a
\* revoke call carries no PermissionsWithGrantOption.
C24_GrantOptionForcedOrEmpty ==
    \A n \in CentralFineCalls :
        LET r == RecordOf(lfCalls[n])
            c == lfCalls[n].call
        IN  /\ c.api = "grant_permissions"
                => c.PermissionsWithGrantOption =
                       IF Has(r.PermissionsWithGrantOption)
                       THEN Some({"SELECT", "DESCRIBE"}) ELSE Some({})
            /\ c.api = "revoke_permissions" => ~Has(c.PermissionsWithGrantOption)

\* a grant was made for a record whose PermissionsWithGrantOption is the
\* empty list, with SELECT and DESCRIBE as grant option
C24_Witness ==
    \E n \in CentralFineCalls :
        /\ lfCalls[n].call.api = "grant_permissions"
        /\ RecordOf(lfCalls[n]).PermissionsWithGrantOption = Some({})
        /\ lfCalls[n].call.PermissionsWithGrantOption = Some({"SELECT", "DESCRIBE"})

\* the selector the code picks has a DatabaseName but not what names the
\* tables or the columns
LacksName(r) ==
    /\ ~LacksDatabase(r)
    /\ \/ /\ Has(r.Table)
          /\ ~Has(Get(r.Table).Name) /\ ~Has(Get(r.Table).TableWildcard)
       \/ /\ ~Has(r.Table)
          /\ \/ ~Has(Get(r.TableWithColumns).Name)
             \/ /\ ~Has(Get(r.TableWithColumns).ColumnNames)
                /\ ~Has(Get(r.TableWithColumns).ColumnWildcard)

\* C25: no permission-service call and no catalog call is made for a record
\* whose selector lacks Name and TableWildcard, or (TableWithColumns) lacks
\* Name or both ColumnNames and ColumnWildcard; the worker fails at it with
\* LFAttributeError.
C25_ValidationBeforeSideEffects ==
    /\ \A n \in DOMAIN lfCalls : ~LacksName(RecordOf(lfCalls[n]))
    /\ \A n \in DOMAIN glueCalls : ~LacksName(RecordOf(glueCalls[n]))
    /\ \A i \in Workers :
         (pc[i] \in {"apply", "done", "failed"} /\ LacksName(batch[i][idx[i]]))
             => (pc[i] = "failed" /\ err[i] = "LFAttributeError")

\* C26: a record without Permissions makes the worker fail at it with
\* LFAttributeError, and no permission-service call is made for it.
C26_MissingPermissionsRejected ==
    /\ \A n \in DOMAIN lfCalls :
          path[lfCalls[n].inv] \in {"central", "consumption"}
              => Has(RecordOf(lfCalls[n]).Permissions)
    /\ \A i \in Workers :
         /\ \A k \in 1..(idx[i] - 1) : Has(batch[i][k].Permissions)
         /\ (pc[i] \in {"apply", "done", "failed"} /\ ~Has(batch[i][idx[i]].Permissions))
               => (pc[i] = "failed" /\ err[i] = "LFAttributeError")

\* the published original records that invocation i was handed
OriginalsHeld(i) ==
    {x \in DOMAIN published : published[x].call.kind = "original" /\ Holds(i, x)}

CrossAccount(r) ==
    /\ Has(r.Principal)
    /\ Len(Get(r.Principal)) >= 6
    /\ Get(r.Principal)[1] = "arn"
    /\ Get(r.Principal)[5] # CentralAccountId

\* C27: every fine-grained grant a worker makes for a published record with a
\* principal of another account comes after the publication of the record's
\* DB-describe record, which precedes the record's own; and no record whose
\* AccessType is neither grant nor revoke is published or gets a
\* fine-grained call.
C27_SameAccessTypeClassification ==
    /\ \A n \in DOMAIN lfCalls :
          (IsFine(lfCalls[n]) /\ lfCalls[n].call.api = "grant_permissions")
              => \A x \in OriginalsHeld(lfCalls[n].inv) :
                    CrossAccount(RecordOf(published[x]))
                        => \E d \in DescribeOf(x) : d < x
    /\ \A x \in DOMAIN published :
          Lower(RecordOf(published[x]).AccessType) \in {"grant", "revoke"}
    /\ \A n \in DOMAIN lfCalls :
          IsFine(lfCalls[n])
              => Lower(RecordOf(lfCalls[n]).AccessType) \in {"grant", "revoke"}

====
